---- MODULE Spec2Model ----
(***************************************************************************)
(* Stock Price Consensus Engine (main.py) and its Tkinter front end        *)
(* (ui.py).                                                                *)
(*                                                                         *)
(* Prices are decimal numbers counted in thousandths of a currency unit    *)
(* ("mills"): 150400 is 150.40.  A Python float-or-None is a record        *)
(* [k, v]: k = "num" carries the value v, and k = "none", "nan", "inf",    *)
(* "ninf" are None, NaN, +infinity and -infinity (v is 0 and unused).      *)
(* Arithmetic on the finite values is exact; the comparisons with NaN and  *)
(* the infinities follow IEEE 754 as Python does.                          *)
(***************************************************************************)
EXTENDS Integers, Sequences, FiniteSets, TLC

VARIABLES
    fetch_btn,      \* state of the "Fetch Price" button: "normal" / "disabled"
    status,         \* level of the status bar message
    output_text,    \* what the output widget shows: <<>> or <<display>>
    after_queue,    \* callbacks scheduled with self.after(0, ...), in order
    thr,            \* the worker threads started so far, by start order
    nclicks,        \* number of times the button command has run
    call,           \* a direct call of a function of main.py: fn, args, ret
    prev            \* ret of the preceding direct call in a series, or <<>>

vars == <<fetch_btn, status, output_text, after_queue, thr, nclicks, call, prev>>

fnVars == <<call, prev>>

(***************************************************************************)
(* Bounds of the model.                                                    *)
(***************************************************************************)
MaxClicks == 2      \* button presses explored
MaxLen == 3         \* longest list passed directly to consensus_price
MaxSources == 3     \* largest total_sources passed to confidence_score

(***************************************************************************)
(* Configuration constants of main.py.                                     *)
(***************************************************************************)
MIN_VALID_SOURCES == 1
\* MAX_PRICE_DEVIATION = 0.5 (percent), written in tenths of a percent.
MAX_PRICE_DEVIATION_TENTHS == 5
MARKET_OPEN_TIME == 9
MARKET_CLOSE_TIME == 16

(***************************************************************************)
(* Python values.                                                          *)
(***************************************************************************)
None == [k |-> "none", v |-> 0]
NaN == [k |-> "nan", v |-> 0]
Inf == [k |-> "inf", v |-> 0]
NegInf == [k |-> "ninf", v |-> 0]
Num(x) == [k |-> "num", v |-> x]
FAILED == [k |-> "FAILED", v |-> 0]

\* What float(...) or the None paths of an adapter's fetch can hand back.
Readings ==
    {None, NaN, Inf, NegInf, Num(0), Num(-1000),
     Num(150000), Num(150400), Num(150754), Num(200000)}

\* Valid prices the engine can pass to consensus_price.
ListPrices ==
    {Num(150000), Num(150400), Num(150754), Num(151152), Num(200000), Inf}

Abs(x) == IF x < 0 THEN -x ELSE x

\* price > 0 on a float: False for NaN and -inf, True for +inf.
GtZero(p) ==
    CASE p.k = "num" -> p.v > 0
      [] p.k = "inf" -> TRUE
      [] OTHER -> FALSE

\* a <= b on floats that are finite or +inf (the order sorted() uses).
LeVal(a, b) == b.k = "inf" \/ (a.k = "num" /\ b.k = "num" /\ a.v <= b.v)

\* round(num / den) to the nearest integer, ties to even (den > 0, num >= 0).
RoundDiv(num, den) ==
    LET q == num \div den
        r == num % den
    IN  IF 2 * r < den THEN q
        ELSE IF 2 * r > den THEN q + 1
        ELSE IF q % 2 = 0 THEN q ELSE q + 1

RECURSIVE SumSeq(_)
SumSeq(s) == IF s = <<>> THEN 0 ELSE Head(s).v + SumSeq(Tail(s))

RECURSIVE Insert(_, _)
Insert(x, s) ==
    IF s = <<>> THEN <<x>>
    ELSE IF LeVal(x, Head(s)) THEN <<x>> \o s
    ELSE <<Head(s)>> \o Insert(x, Tail(s))

RECURSIVE Sorted(_)
Sorted(s) == IF s = <<>> THEN <<>> ELSE Insert(Head(s), Sorted(Tail(s)))

\* Filter with the bound of the deviation test excluded (< for <=).
RECURSIVE Filter_strict(_, _)
Filter_strict(s, m2) ==
    IF s = <<>> THEN <<>>
    ELSE LET p == Head(s)
             keep == /\ p.k = "num"
                     /\ m2.k = "num"
                     /\ Abs(2 * p.v - m2.v) * 100 * 10
                            < MAX_PRICE_DEVIATION_TENTHS * m2.v
         IN  (IF keep THEN <<p>> ELSE <<>>) \o Filter_strict(Tail(s), m2)

RECURSIVE Filter(_, _)
Filter(s, m2) ==
    IF s = <<>> THEN <<>>
    ELSE LET p == Head(s)
             keep == /\ p.k = "num"
                     /\ m2.k = "num"
                     /\ Abs(2 * p.v - m2.v) * 100 * 10
                            <= MAX_PRICE_DEVIATION_TENTHS * m2.v
         IN  (IF keep THEN <<p>> ELSE <<>>) \o Filter(Tail(s), m2)

\* Median2 anchored on the mean of the list instead of its median.
Median2_asMean(s) ==
    IF \E i \in 1..Len(s) : s[i].k = "inf" THEN Inf
    ELSE Num((2 * SumSeq(s)) \div Len(s))

\* statistics.median, doubled so that the mean of the two middle values of an
\* even-length list stays an integer: Num(2 * median), or Inf.
Median2(s) ==
    LET srt == Sorted(s)
        n == Len(s)
    IN  IF n % 2 = 1
        THEN LET x == srt[(n + 1) \div 2]
             IN  IF x.k = "inf" THEN Inf ELSE Num(2 * x.v)
        ELSE LET a == srt[n \div 2]
                 b == srt[n \div 2 + 1]
             IN  IF a.k = "inf" \/ b.k = "inf" THEN Inf ELSE Num(a.v + b.v)

\* round(statistics.mean(s), 2) of finite values, in mills.
RoundedMean(s) == Num(10 * RoundDiv(SumSeq(s), 10 * Len(s)))

is_valid_price(price) == price # None /\ GtZero(price)

\* consensus_price falling back on the mean of all the prices when the filter
\* retains too few, instead of returning None.
consensus_price_unfiltered(ps) ==
    IF Len(ps) < MIN_VALID_SOURCES THEN None
    ELSE LET filtered == Filter(ps, Median2(ps))
         IN  IF Len(filtered) < MIN_VALID_SOURCES THEN RoundedMean(ps)
             ELSE RoundedMean(filtered)

consensus_price(ps) ==
    IF Len(ps) < MIN_VALID_SOURCES THEN None
    ELSE LET filtered == Filter(ps, Median2(ps))
         IN  IF Len(filtered) < MIN_VALID_SOURCES THEN None
             ELSE RoundedMean(filtered)

\* confidence_score without the 0.1 bonus.
confidence_score_nobonus(valid_count, total_sources, final_price_exists) ==
    IF ~final_price_exists THEN 0
    ELSE RoundDiv(100 * valid_count, total_sources)

\* Confidence in hundredths: 60 is 0.6.
confidence_score(valid_count, total_sources, final_price_exists) ==
    IF ~final_price_exists THEN 0
    ELSE LET capped == IF 100 * valid_count + 10 * total_sources
                            <= 100 * total_sources
                       THEN 100 * valid_count + 10 * total_sources
                       ELSE 100 * total_sources
         IN  RoundDiv(capped, total_sources)

(***************************************************************************)
(* StockPriceEngine (main.py).                                             *)
(***************************************************************************)
\* self.sources, by name, in the order __init__ registers them.
Sources == <<"YahooFinance", "Stooq">>
total_sources == Len(Sources)

\* Attributes an instance of StockPriceEngine has; utc_now is a function of
\* the module main, not of the class.
EngineAttributes == {"sources", "total_sources", "fetch_price", "_error"}

\* Wall-clock samples (hour, minute, weekday) in the fixed UTC-5 offset.
ClockHours == {9, 10, 16}
ClockMinutes == {0, 30}
ClockWeekdays == {0, 5}

market_is_open(hour, minute, weekday) ==
    LET is_open == /\ \/ hour > MARKET_OPEN_TIME
                      \/ (hour = MARKET_OPEN_TIME /\ minute >= 30)
                   /\ hour < MARKET_CLOSE_TIME
        is_weekend == weekday >= 5
    IN  is_open /\ ~is_weekend

\* A dict is the sequence of its items in insertion order.
RECURSIVE DictSet(_, _, _)
DictSet(d, key, val) ==
    IF d = <<>> THEN <<[name |-> key, val |-> val]>>
    ELSE IF Head(d).name = key
         THEN <<[name |-> key, val |-> val]>> \o Tail(d)
         ELSE <<Head(d)>> \o DictSet(Tail(d), key, val)

RECURSIVE KeysNotFailed(_)
KeysNotFailed(d) ==
    IF d = <<>> THEN <<>>
    ELSE (IF Head(d).val # FAILED THEN <<Head(d).name>> ELSE <<>>)
             \o KeysNotFailed(Tail(d))

\* str.upper() on the symbols the model enters.
Upper(sym) == IF sym = "aapl" THEN "AAPL" ELSE sym

_error(code, message, source_map) ==
    [error |-> code,
     message |-> message,
     scraped_at |-> "utc_now",
     source_prices |-> IF source_map # <<>> THEN source_map ELSE <<>>]

\* Lines 218-251 of fetch_price: the two validation phases and the scoring.
fetch_price_result(symbol, market_state, raw_prices, source_map, valid_count) ==
    IF valid_count < MIN_VALID_SOURCES
    THEN _error("INSUFFICIENT_DATA",
                <<"Requires", MIN_VALID_SOURCES, "found", valid_count>>,
                source_map)
    ELSE LET final_price == consensus_price(raw_prices)
         IN  IF final_price = None
             THEN _error("LOW_CONFIDENCE",
                         <<"deviated by more than", MAX_PRICE_DEVIATION_TENTHS>>,
                         source_map)
             ELSE [symbol |-> Upper(symbol),
                   price |-> final_price,
                   confidence |-> confidence_score(valid_count, total_sources,
                                                   final_price # None),
                   sources_used |-> KeysNotFailed(source_map),
                   source_prices |-> source_map,
                   market_state |-> market_state,
                   scraped_at |-> "utc_now",
                   price_type |-> "LIVE"]

(***************************************************************************)
(* Worker threads: StockApp._fetch_async running engine.fetch_price.       *)
(***************************************************************************)
\* A thread that has not entered the engine, or has left it.  got, called and
\* slept record what the gathering loop did (the readings the adapters
\* returned, the adapters invoked, the sleeps taken); raised and posted record
\* that fetch_price raised and that self.after was called.
NoLocals(pc, symbol, raised, posted) ==
    [pc |-> pc, symbol |-> symbol, market_state |-> "", i |-> 0,
     raw_prices |-> <<>>, source_map |-> <<>>, valid_count |-> 0,
     got |-> <<>>, called |-> <<>>, slept |-> 0,
     raised |-> raised, result |-> <<>>, posted |-> posted]

Threads == 1..Len(thr)

\* fetch_price, lines 196-203: the market state and the empty locals.
fetch_price_enter(t) ==
    /\ thr[t].pc = "start"
    /\ \E hour \in ClockHours, minute \in ClockMinutes, weekday \in ClockWeekdays :
          thr' = [thr EXCEPT ![t].pc = "gather",
                             ![t].market_state =
                                 IF market_is_open(hour, minute, weekday)
                                 THEN "OPEN" ELSE "CLOSED",
                             ![t].i = 1]
    /\ UNCHANGED <<fetch_btn, status, output_text, after_queue, nclicks>>
    /\ UNCHANGED fnVars

\* One iteration of the gathering loop up to the sleep, lines 206-214.
GatherStep(w, price) ==
    LET name == Sources[w.i]
    IN  IF is_valid_price(price)
        THEN [w EXCEPT !.raw_prices = Append(@, price),
                       !.source_map = DictSet(@, name, price),
                       !.valid_count = @ + 1,
                       !.got = Append(@, price),
                       !.called = Append(@, name),
                       !.pc = "sleep"]
        ELSE [w EXCEPT !.source_map = DictSet(@, name, FAILED),
                       !.got = Append(@, price),
                       !.called = Append(@, name),
                       !.pc = "sleep"]

fetch_price_gather(t) ==
    /\ thr[t].pc = "gather"
    /\ \E price \in Readings : thr' = [thr EXCEPT ![t] = GatherStep(@, price)]
    /\ UNCHANGED <<fetch_btn, status, output_text, after_queue, nclicks>>
    /\ UNCHANGED fnVars

\* SleepStep leaving the loop as soon as an adapter gave no valid price.
SleepStep_break(w) ==
    IF w.i < Len(Sources) /\ is_valid_price(w.got[Len(w.got)])
    THEN [w EXCEPT !.slept = @ + 1, !.i = @ + 1, !.pc = "gather"]
    ELSE [w EXCEPT !.slept = @ + 1, !.pc = "validate"]

\* time.sleep(0.3), line 216, and the loop's next iteration or exit.
SleepStep(w) ==
    IF w.i < Len(Sources)
    THEN [w EXCEPT !.slept = @ + 1, !.i = @ + 1, !.pc = "gather"]
    ELSE [w EXCEPT !.slept = @ + 1, !.pc = "validate"]

fetch_price_sleep(t) ==
    /\ thr[t].pc = "sleep"
    /\ thr' = [thr EXCEPT ![t] = SleepStep(@)]
    /\ UNCHANGED <<fetch_btn, status, output_text, after_queue, nclicks>>
    /\ UNCHANGED fnVars

\* Lines 218-251: fetch_price returns and _fetch_async holds the result.
fetch_price_return(t) ==
    /\ thr[t].pc = "validate"
    /\ thr' = [thr EXCEPT
                 ![t].result = <<fetch_price_result(thr[t].symbol,
                                     thr[t].market_state, thr[t].raw_prices,
                                     thr[t].source_map, thr[t].valid_count)>>,
                 ![t].pc = "post"]
    /\ UNCHANGED <<fetch_btn, status, output_text, after_queue, nclicks>>
    /\ UNCHANGED fnVars

\* An exception escapes engine.fetch_price (ui.py line 94 catches Exception).
fetch_price_raises(t) ==
    /\ thr[t].pc \in {"gather", "sleep", "validate"}
    /\ thr' = [thr EXCEPT ![t] = NoLocals("except", thr[t].symbol, TRUE, FALSE)]
    /\ UNCHANGED <<fetch_btn, status, output_text, after_queue, nclicks>>
    /\ UNCHANGED fnVars

\* The except clause, ui.py lines 94-97.  Building the dict evaluates
\* self.engine.utc_now(); without that attribute an AttributeError leaves
\* the handler and ends the thread.
ExceptStep(w) ==
    IF "utc_now" \in EngineAttributes
    THEN [w EXCEPT !.result = <<[error |-> "ENGINE_EXCEPTION",
                                 message |-> <<"str(e)">>,
                                 scraped_at |-> "utc_now"]>>,
                   !.pc = "post"]
    ELSE [w EXCEPT !.pc = "crashed"]

fetch_async_except(t) ==
    /\ thr[t].pc = "except"
    /\ thr' = [thr EXCEPT ![t] = ExceptStep(@)]
    /\ UNCHANGED <<fetch_btn, status, output_text, after_queue, nclicks>>
    /\ UNCHANGED fnVars

\* self.after(0, self._display_result, result), ui.py line 100.
fetch_async_after(t) ==
    /\ thr[t].pc = "post"
    /\ after_queue' = Append(after_queue, thr[t].result[1])
    /\ thr' = [thr EXCEPT ![t] = NoLocals("done", thr[t].symbol,
                                          thr[t].raised, TRUE)]
    /\ UNCHANGED <<fetch_btn, status, output_text, nclicks>>
    /\ UNCHANGED fnVars

(***************************************************************************)
(* StockApp (ui.py): the handlers that run on the main thread.             *)
(***************************************************************************)
\* What the user may have typed into symbol_entry.
EntryTexts == {"", " ", " aapl "}

\* self.symbol_entry.get().strip().upper()
StripUpper(text) == IF text = " aapl " THEN "AAPL" ELSE ""

\* The state line 83 gives the button while a fetch runs.
FetchingButtonState == "disabled"

\* A ttk.Button runs its command only while it is not disabled.
ButtonRunsCommand == fetch_btn # "disabled"

\* StockApp.fetch_price, the button's command (ui.py lines 77-87).
StockApp_fetch_price ==
    /\ ButtonRunsCommand
    /\ nclicks < MaxClicks
    /\ nclicks' = nclicks + 1
    /\ \E text \in EntryTexts :
          LET symbol == StripUpper(text)
          IN  IF symbol = ""
              THEN /\ status' = "warning"
                   /\ UNCHANGED <<fetch_btn, thr>>
              ELSE /\ fetch_btn' = FetchingButtonState
                   /\ status' = "info"
                   /\ thr' = Append(thr, NoLocals("start", symbol, FALSE, FALSE))
    /\ UNCHANGED <<output_text, after_queue>>
    /\ UNCHANGED fnVars

\* The text _display_result builds (ui.py lines 109-144).  The percentage is
\* int(confidence * 100), which is the confidence in hundredths for the
\* values 0.6 and 1.0 that two sources give.
Display(result) ==
    IF "error" \in DOMAIN result
    THEN [head |-> "DATA UNAVAILABLE",
          error |-> result.error,
          message |-> result.message,
          scraped_at |-> result.scraped_at,
          sources |-> IF "source_prices" \in DOMAIN result
                      THEN result.source_prices ELSE <<>>]
    ELSE [head |-> "PRICE FETCHED SUCCESSFULLY",
          symbol |-> result.symbol,
          price |-> result.price,
          confidence_pct |-> result.confidence,
          market_state |-> result.market_state,
          price_type |-> result.price_type,
          scraped_at |-> result.scraped_at,
          sources |-> result.source_prices]

\* StockApp._display_result, run by the event loop for the oldest callback.
display_result ==
    /\ after_queue # <<>>
    /\ LET result == Head(after_queue)
       IN  /\ output_text' = <<Display(result)>>
           /\ status' = IF "error" \in DOMAIN result THEN "error" ELSE "success"
    /\ after_queue' = Tail(after_queue)
    /\ fetch_btn' = "normal"
    /\ UNCHANGED <<thr, nclicks>>
    /\ UNCHANGED fnVars

(***************************************************************************)
(* The application: run.py builds the engine and the window.               *)
(***************************************************************************)
NoCall == [fn |-> "none", args |-> <<>>, ret |-> <<>>]

UIInit ==
    /\ fetch_btn = "normal"
    /\ status = "Ready"
    /\ output_text = <<>>
    /\ after_queue = <<>>
    /\ thr = <<>>
    /\ nclicks = 0

Init == UIInit /\ call = NoCall /\ prev = <<>>

Next ==
    \/ StockApp_fetch_price
    \/ display_result
    \/ \E t \in Threads : fetch_price_enter(t)
    \/ \E t \in Threads : fetch_price_gather(t)
    \/ \E t \in Threads : fetch_price_sleep(t)
    \/ \E t \in Threads : fetch_price_return(t)
    \/ \E t \in Threads : fetch_price_raises(t)
    \/ \E t \in Threads : fetch_async_except(t)
    \/ \E t \in Threads : fetch_async_after(t)

Spec == Init /\ [][Next]_vars

(***************************************************************************)
(* Direct calls of main.py's functions, as its command-line entry and a    *)
(* test with mocked adapters make them.                                    *)
(***************************************************************************)
Lists == UNION {[1..n -> ListPrices] : n \in 0..MaxLen}

\* engine.fetch_price run to its return with the adapters answering rs.
RECURSIVE RunLoop(_, _)
RunLoop(w, rs) ==
    IF w.pc = "validate" THEN w
    ELSE IF w.pc = "gather" THEN RunLoop(GatherStep(w, rs[w.i]), rs)
    ELSE RunLoop(SleepStep(w), rs)

RunFetch(symbol, clock, rs) ==
    LET w0 == [NoLocals("gather", symbol, FALSE, FALSE) EXCEPT
                  !.i = 1,
                  !.market_state =
                      IF market_is_open(clock[1], clock[2], clock[3])
                      THEN "OPEN" ELSE "CLOSED"]
        w == RunLoop(w0, rs)
    IN  fetch_price_result(w.symbol, w.market_state, w.raw_prices,
                           w.source_map, w.valid_count)

FnInit ==
    /\ UIInit
    /\ prev = <<>>
    /\ \/ \E ps \in Lists :
             call = [fn |-> "consensus_price", args |-> <<ps>>, ret |-> <<>>]
       \/ \E ts \in 1..MaxSources : \E vc \in 0..ts : \E ex \in BOOLEAN :
             call = [fn |-> "confidence_score", args |-> <<vc, ts, ex>>,
                     ret |-> <<>>]
       \/ \E rs \in [1..Len(Sources) -> Readings] :
          \E clock \in ClockHours \X ClockMinutes \X ClockWeekdays :
             call = [fn |-> "fetch_price", args |-> <<"AAPL", clock, rs>>,
                     ret |-> <<>>]

consensus_price_call ==
    /\ call.fn = "consensus_price" /\ call.ret = <<>>
    /\ call' = [call EXCEPT !.ret = <<consensus_price(call.args[1])>>]
    /\ UNCHANGED <<fetch_btn, status, output_text, after_queue, thr, nclicks, prev>>

confidence_score_call ==
    /\ call.fn = "confidence_score" /\ call.ret = <<>>
    /\ call' = [call EXCEPT !.ret = <<confidence_score(call.args[1],
                                          call.args[2], call.args[3])>>]
    /\ UNCHANGED <<fetch_btn, status, output_text, after_queue, thr, nclicks, prev>>

\* The same call again with one more valid source.
confidence_score_next ==
    /\ call.fn = "confidence_score" /\ call.ret # <<>>
    /\ call.args[1] < call.args[2]
    /\ prev' = call.ret
    /\ call' = [call EXCEPT !.args = <<call.args[1] + 1, call.args[2], call.args[3]>>,
                            !.ret = <<confidence_score(call.args[1] + 1,
                                          call.args[2], call.args[3])>>]
    /\ UNCHANGED <<fetch_btn, status, output_text, after_queue, thr, nclicks>>

engine_fetch_price_call ==
    /\ call.fn = "fetch_price" /\ call.ret = <<>>
    /\ call' = [call EXCEPT !.ret = <<RunFetch(call.args[1], call.args[2],
                                               call.args[3])>>]
    /\ UNCHANGED <<fetch_btn, status, output_text, after_queue, thr, nclicks, prev>>

FnNext ==
    \/ consensus_price_call
    \/ confidence_score_call
    \/ confidence_score_next
    \/ engine_fetch_price_call

FnSpec == FnInit /\ [][FnNext]_vars

(***************************************************************************)
(* Vocabulary of the properties.                                           *)
(***************************************************************************)
\* A reading is valid iff it is present, finite and strictly positive.
ValidReading(r) == r.k = "num" /\ r.v > 0

IsFailure(res) == "error" \in DOMAIN res
IsSuccess(res) == ~IsFailure(res)

\* The thread holds the value engine.fetch_price returned to it.
Returned(t) == thr[t].pc = "post" /\ ~thr[t].raised

NumValid(rs) == Cardinality({i \in 1..Len(rs) : ValidReading(rs[i])})

\* |p - q| / q * 100 <= MAX_PRICE_DEVIATION, for finite p and q > 0.
WithinOf(p, q) ==
    Abs(p.v - q.v) * 100 * 10 <= MAX_PRICE_DEVIATION_TENTHS * q.v

AllValid(ps) == \A i \in 1..Len(ps) : ValidReading(ps[i])

\* Every price of ps is within the threshold of the median of ps.
AllWithinMedian(ps) ==
    /\ ps # <<>>
    /\ AllValid(ps)
    /\ \A i \in 1..Len(ps) :
          Abs(2 * ps[i].v - Median2(ps).v) * 100 * 10
              <= MAX_PRICE_DEVIATION_TENTHS * Median2(ps).v

\* r is the arithmetic mean of ps to the nearest hundredth (10 mills).
IsRoundedMeanOf(r, ps) ==
    /\ r.k = "num"
    /\ r.v % 10 = 0
    /\ 2 * Abs(r.v * Len(ps) - SumSeq(ps)) <= 10 * Len(ps)

Without(ps, j) == [i \in 1..(Len(ps) - 1) |-> IF i < j THEN ps[i] ELSE ps[i + 1]]

\* ps[j] is the one outlier of ps: it lies beyond the threshold of every other
\* price, and the other prices lie within the threshold of each other.
OneOutlierAt(ps, j) ==
    /\ AllValid(ps)
    /\ \A i \in 1..Len(ps) : i # j => ~WithinOf(ps[j], ps[i])
    /\ \A i, k \in 1..Len(ps) : (i # j /\ k # j) => WithinOf(ps[i], ps[k])

\* c (hundredths) is min(1.0, vc / ts + 0.1) to the nearest hundredth.
IsConfidenceOf(c, vc, ts) ==
    LET exact == IF 100 * vc + 10 * ts <= 100 * ts
                 THEN 100 * vc + 10 * ts ELSE 100 * ts
    IN  2 * Abs(c * ts - exact) <= ts

\* A worker is between its start and the end of its thread.
Running(t) == thr[t].pc \notin {"done", "crashed"}

\* Fetches started whose result has not been rendered yet.
InFlight == Cardinality({t \in Threads : Running(t)}) + Len(after_queue)

(***************************************************************************)
(* Properties.                                                             *)
(***************************************************************************)

\* C1: the source_prices map of every result fetch_price returns has exactly
\* one entry per registered adapter, keyed by the adapter's name, in
\* registration order, holding that adapter's price when its reading was
\* valid (present, finite, strictly positive) and "FAILED" otherwise.
C1_OneEntryPerAdapter ==
    \A t \in Threads :
        Returned(t) =>
            LET m == thr[t].result[1].source_prices
            IN  /\ Len(m) = Len(Sources)
                /\ \A i \in 1..Len(Sources) :
                      /\ m[i].name = Sources[i]
                      /\ m[i].val = IF ValidReading(thr[t].got[i])
                                    THEN thr[t].got[i] ELSE FAILED

\* C2: when fewer than MIN_VALID_SOURCES adapters return a valid reading,
\* fetch_price returns a Failure with error INSUFFICIENT_DATA, without price
\* or confidence, whose source_prices marks every adapter that gave no valid
\* reading as "FAILED".
C2_InsufficientData ==
    \A t \in Threads :
        (Returned(t) /\ NumValid(thr[t].got) < MIN_VALID_SOURCES) =>
            LET res == thr[t].result[1]
            IN  /\ IsFailure(res)
                /\ res.error = "INSUFFICIENT_DATA"
                /\ "price" \notin DOMAIN res
                /\ "confidence" \notin DOMAIN res
                /\ \A i \in 1..Len(Sources) :
                      ~ValidReading(thr[t].got[i])
                          => res.source_prices[i].val = FAILED

C4_AgreeingPricesAveraged ==
    /\ (call.fn = "consensus_price" /\ call.ret # <<>>
            /\ AllWithinMedian(call.args[1]))
           => IsRoundedMeanOf(call.ret[1], call.args[1])
    /\ (call.fn = "fetch_price" /\ call.ret # <<>>
            /\ AllWithinMedian(SelectSeq(call.args[3], is_valid_price)))
           => /\ IsSuccess(call.ret[1])
              /\ IsRoundedMeanOf(call.ret[1].price,
                                 SelectSeq(call.args[3], is_valid_price))

\* C4 witness: the adapters returned 150.00 and 150.40 and fetch_price
\* returned a Success with price 150.20.
C4_Witness ==
    /\ call.fn = "fetch_price" /\ call.ret # <<>>
    /\ call.args[3] = <<Num(150000), Num(150400)>>
    /\ IsSuccess(call.ret[1])
    /\ call.ret[1].price = Num(150200)

\* C5: a reading is counted as valid (appended to raw_prices, counted in
\* valid_count, stored as a price in source_prices) if and only if it is
\* present, finite and strictly positive; any other reading is recorded as
\* "FAILED".
C5_ValidIffFinitePositive ==
    \A t \in Threads :
        /\ thr[t].raw_prices = SelectSeq(thr[t].got, ValidReading)
        /\ thr[t].valid_count = NumValid(thr[t].got)
        /\ \A i \in 1..Len(thr[t].got) :
              thr[t].source_map[i].val =
                  IF ValidReading(thr[t].got[i]) THEN thr[t].got[i] ELSE FAILED

\* C6: when at least MIN_VALID_SOURCES valid readings were gathered and the
\* deviation filter retains fewer than MIN_VALID_SOURCES of the gathered
\* prices, fetch_price returns a LOW_CONFIDENCE Failure; the price of every
\* Success is the rounded mean of at least MIN_VALID_SOURCES retained
\* readings; and every Failure is INSUFFICIENT_DATA or LOW_CONFIDENCE.
C6_LowConfidence ==
    \A t \in Threads :
        Returned(t) =>
            LET res == thr[t].result[1]
                raw == SelectSeq(thr[t].got, is_valid_price)
                kept == IF raw = <<>> THEN <<>> ELSE Filter(raw, Median2(raw))
            IN  /\ (NumValid(thr[t].got) >= MIN_VALID_SOURCES
                        /\ Len(kept) < MIN_VALID_SOURCES)
                       => (IsFailure(res) /\ res.error = "LOW_CONFIDENCE")
                /\ IsSuccess(res)
                       => /\ Len(kept) >= MIN_VALID_SOURCES
                          /\ AllValid(kept)
                          /\ IsRoundedMeanOf(res.price, kept)
                /\ IsFailure(res)
                       => res.error \in {"INSUFFICIENT_DATA", "LOW_CONFIDENCE"}

\* C6 witness: 150.00 and 200.00 were gathered, the filter retained neither,
\* and fetch_price returned LOW_CONFIDENCE.
C6_Witness ==
    \E t \in Threads :
        /\ Returned(t)
        /\ thr[t].got = <<Num(150000), Num(200000)>>
        /\ IsFailure(thr[t].result[1])
        /\ thr[t].result[1].error = "LOW_CONFIDENCE"

\* C7: a result of fetch_price carries no positive confidence if and only if
\* it is a Failure; a Success carries min(1.0, valid_count / total_sources +
\* 0.1) rounded to two decimals, which is above 0 and at most 1.0; and
\* confidence_score does not decrease when valid_count grows by one.
C7_Confidence ==
    /\ (call.fn = "fetch_price" /\ call.ret # <<>>) =>
           LET res == call.ret[1]
           IN  /\ IsFailure(res) => ("confidence" \notin DOMAIN res)
               /\ IsSuccess(res) =>
                      /\ res.confidence > 0
                      /\ res.confidence <= 100
                      /\ IsConfidenceOf(res.confidence, NumValid(call.args[3]),
                                        Len(Sources))
    /\ (call.fn = "confidence_score" /\ call.ret # <<>>) =>
           /\ ~call.args[3] => call.ret[1] = 0
           /\ call.args[3] =>
                  /\ call.ret[1] > 0
                  /\ call.ret[1] <= 100
                  /\ IsConfidenceOf(call.ret[1], call.args[1], call.args[2])
           /\ prev # <<>> => prev[1] <= call.ret[1]

\* C7 witness: one of the two adapters gave a valid reading and fetch_price
\* returned a Success with confidence 0.6.
C7_Witness ==
    /\ call.fn = "fetch_price" /\ call.ret # <<>>
    /\ NumValid(call.args[3]) = 1
    /\ IsSuccess(call.ret[1])
    /\ call.ret[1].confidence = 60

\* C8: a worker in which engine.fetch_price raised does not end before it has
\* scheduled _display_result with an ENGINE_EXCEPTION Failure.
C8_EngineExceptionDisplayed ==
    \A t \in Threads :
        (thr[t].raised /\ ~Running(t)) => thr[t].posted

\* C9: within one fetch_price call the adapters are invoked one after the
\* other in registration order, each once, each followed by the pacing sleep,
\* whatever the earlier readings were, and the result exists only after every
\* adapter was invoked and its reading recorded.
C9_SequentialGathering ==
    \A t \in Threads :
        LET w == thr[t]
        IN  /\ Len(w.called) <= Len(Sources)
            /\ w.called = SubSeq(Sources, 1, Len(w.called))
            /\ Len(w.got) = Len(w.called)
            /\ Len(w.source_map) = Len(w.called)
            /\ w.pc = "gather" => (w.slept = Len(w.called) /\ w.i = Len(w.called) + 1)
            /\ w.pc = "sleep" => w.slept = Len(w.called) - 1
            /\ w.pc = "validate" => (w.called = Sources /\ w.slept = Len(Sources))
            /\ w.result # <<>> =>
                   (w.raised \/ (w.called = Sources /\ w.slept = Len(Sources)))

\* C9 witness: the first adapter failed, the second was still invoked and
\* gave a price, and fetch_price returned.
C9_Witness ==
    \E t \in Threads :
        /\ Returned(t)
        /\ thr[t].got = <<None, Num(150400)>>
        /\ thr[t].called = Sources
        /\ thr[t].slept = Len(Sources)

\* C10: at most one fetch is in flight; while one is, the button is disabled;
\* and the button is disabled only while a fetch is still on its way to
\* _display_result, which re-enables it (a disabled button with no worker
\* running and no callback queued is never enabled again).
C10_SingleFetchInFlight ==
    /\ InFlight <= 1
    /\ InFlight = 1 => fetch_btn = "disabled"
    /\ fetch_btn = "disabled" => InFlight = 1

====
